---- MODULE Spec2Model ----
(***************************************************************************)
(* A model of the `fill` and `coalesce` commands of xsv                    *)
(* (src/src/cmd/fill.rs, src/src/cmd/coalesce.rs).                         *)
(*                                                                         *)
(* A record is a sequence of fields; a field is a string and "" is the     *)
(* empty field.  Column indices are 0-based as in the source, so column i  *)
(* of a record r is r[i + 1].  An Option<T> is a set with at most one      *)
(* element: {} is None and {v} is Some(v).                                 *)
(***************************************************************************)
EXTENDS Integers, Sequences, FiniteSets, TLC

\* ------------------------------------------------------------------ bounds

\* The longest input (number of data records) the model reads.
MaxRows == 3

\* The values a field of each column takes (column 0, 1, 2).  Columns 0 and 1
\* can be empty and carry distinct values, so that a value that crosses
\* columns or groups is visible; column 2 is the one used as a group key.
ColumnValues == << {"", "a", "b"}, {"", "c"}, {"x", "y"} >>

NumCols == Len(ColumnValues)

\* The records of an input: every record of NumCols fields, and one longer
\* record (the reader is flexible, a table may be ragged).
Records == { r \in [1..NumCols -> {"", "a", "b", "c", "x", "y"}] :
               \A k \in 1..NumCols : r[k] \in ColumnValues[k] }
           \cup { <<"", "", "y", "">> }

\* The target selections of a fill run: distinct column indices in ascending
\* order, which is what the specification takes a selection to be (sections
\* 3 and 4.1); the code that resolves a selection is not part of src/.
Selections == { <<0>>, <<1>>, <<0, 1>> }

\* The group-by option of a run: absent, or column 2.
GroupBys == { {}, {<<2>>} }

Policies == { "forward", "first" }

\* The longest input the model of coalesce reads: coalesce keeps nothing
\* from one record to the next.
MaxCoalesceRows == 2

\* The selections of a coalesce run: distinct column indices in any order
\* (xsv coalesce 2,1 selects column 1 before column 0).
CoalesceSelections ==
  { <<0>>, <<1>>, <<2>>, <<0, 1>>, <<1, 0>>, <<0, 2>>, <<2, 0>>, <<1, 2>>,
    <<2, 1>>, <<0, 1, 2>>, <<1, 0, 2>> }

\* The header row of the file of a fill run.
FillHeaderRows == { <<"h1", "h2", "h3">> }

\* The first row of the file of a coalesce run.
HeaderRows == { <<"a", "c", "x">>, <<"", "c", "y">>, <<"", "", "x">> }

\* --name: absent or given.
Names == { {}, {"n"} }

\* ------------------------------------------------------- state of a run

VARIABLES
  policy,    \* "forward": ForwardFill, "first": FirstFill (--first),
             \* "coalesce": the coalesce command
  select,    \* the target selection
  groupby,   \* Option<Selection>: the group-by selection
  input,     \* the records read so far, in reading order
  grouper,   \* Grouper: group key -> (column -> remembered value)
  buffer,    \* FirstFill.buffer: group key -> the rows held back
  bufsrc,    \* for each buffered row, the number of the input record it is
  output,    \* the records written so far, in writing order
  outsrc,    \* for each written row, the number of the input record it is
  pc,        \* "start" (fill, before its header row), "header" (coalesce,
             \* before its header row), "reading", "flushing" (fill, input
             \* ended), "done", "error" (fill, panic on a short record)
  headers,          \* rdr.byte_headers(), the first row of the file
  flag_name,        \* coalesce: Option<String>, --name
  flag_no_headers   \* --no-headers

\* What a run is started with and never changes.
config == << policy, select, groupby, headers, flag_name, flag_no_headers >>

vars == << config, input, grouper, buffer, bufsrc, output, outsrc, pc >>

\* ------------------------------------------------------ pure functions

\* record[i] of the source (0-based index).
Field(record, i) == record[i + 1]

\* Filler::groupbykey ignoring the group-by selection: every record gets the
\* empty key.
groupbykey_NoGroup(groupkey, record, gb) == << >>

\* Filler::groupbykey: a key computed earlier is returned as it is;
\* otherwise the fields of the group-by columns in selection order, or the
\* empty key when there is no group-by selection.
groupbykey(groupkey, record, gb) ==
  IF groupkey # {} THEN CHOOSE k \in groupkey : TRUE
  ELSE IF gb # {}
       THEN LET sel == CHOOSE s \in gb : TRUE
            IN  [k \in 1..Len(sel) |-> Field(record, sel[k])]
       ELSE << >>

\* Grouper::fill without its first test: the remembered value replaces the
\* field whether or not the field is empty.
GrouperFill_Overrides(g, groupkey, col, field) ==
  IF groupkey \notin DOMAIN g THEN field
  ELSE IF col \in DOMAIN g[groupkey] THEN g[groupkey][col]
  ELSE field

\* Grouper::fill: a non-empty field is returned as it is; an empty one is
\* replaced by the value remembered for (group key, column), when there is
\* one.
GrouperFill(g, groupkey, col, field) ==
  IF field # "" THEN field
  ELSE IF groupkey \notin DOMAIN g THEN field
  ELSE IF col \in DOMAIN g[groupkey] THEN g[groupkey][col]
  ELSE field

\* Grouper::memorize with or_insert in the place of insert.
GrouperMemorize_KeepsOld(g, groupkey, col, field) ==
  IF groupkey \notin DOMAIN g
  THEN (groupkey :> (col :> field)) @@ g
  ELSE [g EXCEPT ![groupkey] = @ @@ (col :> field)]

\* Grouper::memorize: insert, overwriting what was remembered.
GrouperMemorize(g, groupkey, col, field) ==
  IF groupkey \notin DOMAIN g
  THEN (groupkey :> (col :> field)) @@ g
  ELSE [g EXCEPT ![groupkey] = (col :> field) @@ @]

\* Grouper::memorize_first with insert in the place of or_insert.
GrouperMemorizeFirst_Overwrites(g, groupkey, col, field) ==
  IF groupkey \notin DOMAIN g
  THEN (groupkey :> (col :> field)) @@ g
  ELSE [g EXCEPT ![groupkey] = (col :> field) @@ @]

\* Grouper::memorize_first: insert only when nothing is remembered yet.
GrouperMemorizeFirst(g, groupkey, col, field) ==
  IF groupkey \notin DOMAIN g
  THEN (groupkey :> (col :> field)) @@ g
  ELSE [g EXCEPT ![groupkey] = @ @@ (col :> field)]

\* MapSelected::next, iterated over the items left: the item at position
\* `index` is mapped when selection[selection_index] is that position, and
\* selection_index then advances; every other item passes through.
RECURSIVE MapSelected(_, _, _, _, _, _)
MapSelected(items, selection, selection_index, index, g, groupkey) ==
  IF items = << >> THEN << >>
  ELSE LET item == Head(items)
           hit  == /\ selection_index < Len(selection)
                   /\ selection[selection_index + 1] = index
       IN  << IF hit THEN GrouperFill(g, groupkey, index, item) ELSE item >>
           \o MapSelected(Tail(items), selection,
                          IF hit THEN selection_index + 1 ELSE selection_index,
                          index + 1, g, groupkey)

\* Fillable::fill (for csv::ByteRecord and for VecRecord alike).
Fill(record, selection, g, groupkey) ==
  MapSelected(record, selection, 0, 0, g, groupkey)

\* ForwardFill::memorize: every non-empty field of a selected column is
\* memorized, in selection order.
RECURSIVE ForwardFill_memorize(_, _, _, _)
ForwardFill_memorize(g, selection, record, groupkey) ==
  IF selection = << >> THEN g
  ELSE LET i     == Head(selection)
           field == Field(record, i)
       IN  ForwardFill_memorize(
             IF field # "" THEN GrouperMemorize(g, groupkey, i, field) ELSE g,
             Tail(selection), record, groupkey)

\* FirstFill::memorize calling memorize in the place of memorize_first.
FirstFill_memorize_Forward(g, selection, record, groupkey) ==
  ForwardFill_memorize(g, selection, record, groupkey)

\* FirstFill::memorize: the same with memorize_first.
RECURSIVE FirstFill_memorize(_, _, _, _)
FirstFill_memorize(g, selection, record, groupkey) ==
  IF selection = << >> THEN g
  ELSE LET i     == Head(selection)
           field == Field(record, i)
       IN  FirstFill_memorize(
             IF field # "" THEN GrouperMemorizeFirst(g, groupkey, i, field) ELSE g,
             Tail(selection), record, groupkey)

\* The test answering that no selected field is empty, whatever the row.
AnyEmpty_Never(row, selection) == FALSE

\* The test answering that a selected field is empty, whatever the row.
AnyEmpty_Always(row, selection) == TRUE

\* The test on the first selected column alone.
AnyEmpty_FirstOnly(row, selection) ==
  selection # << >> /\ Field(row, selection[1]) = ""

\* self.select.iter().any(|&i| row[i] == b"")
AnyEmpty(row, selection) ==
  \E k \in 1..Len(selection) : Field(row, selection[k]) = ""

\* The rows of a drained buffer written as they were buffered.
Refill_AsBuffered(rows, selection, g, groupkey) == rows

\* The rows of a drained buffer, each filled again from the memory as it is
\* at the drain: buffered_row.fill(&self.select, &self.grouper, &key).
Refill(rows, selection, g, groupkey) ==
  [k \in 1..Len(rows) |-> Fill(rows[k], selection, g, groupkey)]

\* The group's buffer taken for empty whatever it holds.
BufferRows_None(buf, key) == << >>

\* The rows buffered under a key (none when the key has no entry).
BufferRows(buf, key) == IF key \in DOMAIN buf THEN buf[key] ELSE << >>

\* The push under the empty key, whatever the group.
BufferPush_NoGroup(buf, key, x) ==
  (<< >> :> Append(BufferRows(buf, << >>), x)) @@ buf

\* self.buffer.entry(key).or_insert_with(|| Vec::new()).push(row)
BufferPush(buf, key, x) == (key :> Append(BufferRows(buf, key), x)) @@ buf

\* A remove that leaves the entry in the map.
BufferRemove_Keeps(buf, key) == buf

\* self.buffer.remove(&key): the map without the key's entry.
BufferRemove(buf, key) == [k \in DOMAIN buf \ {key} |-> buf[k]]

\* The row written before the drained rows.
WriteDrained_RowFirst(out, rows, row) == Append(out, row) \o rows

\* The drained rows written last in, first out.
WriteDrained_Reversed(out, rows, row) ==
  Append(out \o [k \in 1..Len(rows) |-> rows[Len(rows) + 1 - k]], row)

\* The writes of a resolving record: the drained rows in buffer order, then
\* the row itself.
WriteDrained(out, rows, row) == Append(out \o rows, row)

\* -------------------------------------------------------- a run of fill
\* The run from the reading of the header row on: the arguments are parsed,
\* reader and writer are open, the selections are resolved.  The runs
\* modelled are those of a file with a header row, without --no-headers;
\* --name of coalesce is not used.

Init ==
  /\ policy \in Policies
  /\ select \in Selections
  /\ groupby \in GroupBys
  /\ input = << >>
  /\ grouper = << >>
  /\ buffer = << >>
  /\ bufsrc = << >>
  /\ output = << >>
  /\ outsrc = << >>
  /\ pc = "start"
  /\ headers \in FillHeaderRows
  /\ flag_name = {}
  /\ flag_no_headers = FALSE

\* if !rconfig.no_headers { rconfig.write_headers(&mut rdr, &mut wtr)? }:
\* the header row is written as it is, before any record is read.  It is
\* written as row 0 of the input.
WriteHeaders ==
  /\ pc = "start"
  /\ IF ~flag_no_headers
     THEN /\ output' = Append(output, headers)
          /\ outsrc' = Append(outsrc, 0)
     ELSE UNCHANGED << output, outsrc >>
  /\ pc' = "reading"
  /\ UNCHANGED << config, input, grouper, buffer, bufsrc >>

\* One iteration of FirstFill::fill's loop on the record read: the filled
\* row is pushed on its group's buffer when a selected field is still
\* empty; otherwise the group's buffer is removed and written, each row
\* filled again, and then the row is written.
FirstFillRecord(record) ==
  LET groupkey == groupbykey({}, record, groupby)
      g1       == FirstFill_memorize(grouper, select, record, groupkey)
      row      == Fill(record, select, g1, groupkey)
      n        == Len(input) + 1
  IN  /\ grouper' = g1
      /\ IF AnyEmpty(row, select)
         THEN /\ buffer' = BufferPush(buffer, groupkey, row)
              /\ bufsrc' = BufferPush(bufsrc, groupkey, n)
              /\ UNCHANGED << output, outsrc >>
         ELSE /\ buffer' = BufferRemove(buffer, groupkey)
              /\ bufsrc' = BufferRemove(bufsrc, groupkey)
              /\ output' = WriteDrained(output,
                             Refill(BufferRows(buffer, groupkey), select, g1, groupkey),
                             row)
              /\ outsrc' = WriteDrained(outsrc, BufferRows(bufsrc, groupkey), n)

\* The forward policy run through the buffering loop.
ForwardFillRecord_Buffers(record) == FirstFillRecord(record)

\* One iteration of ForwardFill::fill's loop on the record read.
ForwardFillRecord(record) ==
  LET groupkey == groupbykey({}, record, groupby)
      g1       == ForwardFill_memorize(grouper, select, record, groupkey)
      row      == Fill(record, select, g1, groupkey)
  IN  /\ grouper' = g1
      /\ output' = Append(output, row)
      /\ outsrc' = Append(outsrc, Len(input) + 1)
      /\ UNCHANGED << buffer, bufsrc >>

\* rdr.read_byte_record returns true: the loop body runs on the record.
ReadRecord ==
  /\ pc = "reading"
  /\ Len(input) < MaxRows
  /\ \E record \in Records :
       /\ input' = Append(input, record)
       /\ IF policy = "first" THEN FirstFillRecord(record)
                              ELSE ForwardFillRecord(record)
  /\ UNCHANGED << config, pc >>

\* rdr.read_byte_record returns false: the loop ends.
EndOfInput ==
  /\ pc = "reading"
  /\ pc' = "flushing"
  /\ UNCHANGED << config, input, grouper, buffer, bufsrc, output, outsrc >>

\* The loop over the buffers left with its body left out: the rows are
\* dropped.
FlushGroup_Discards ==
  /\ pc = "flushing"
  /\ \E key \in DOMAIN buffer :
       /\ buffer' = [k \in DOMAIN buffer \ {key} |-> buffer[k]]
       /\ bufsrc' = [k \in DOMAIN bufsrc \ {key} |-> bufsrc[k]]
  /\ UNCHANGED << config, input, grouper, output, outsrc, pc >>

\* One iteration of `for (key, rows) in self.buffer`: the loop consumes the
\* map, and a HashMap is iterated in an order the program does not choose, so
\* any key left may come next.
FlushGroup ==
  /\ pc = "flushing"
  /\ \E key \in DOMAIN buffer :
       /\ output' = output \o Refill(buffer[key], select, grouper, key)
       /\ outsrc' = outsrc \o bufsrc[key]
       /\ buffer' = [k \in DOMAIN buffer \ {key} |-> buffer[k]]
       /\ bufsrc' = [k \in DOMAIN bufsrc \ {key} |-> bufsrc[k]]
  /\ UNCHANGED << config, input, grouper, pc >>

\* wtr.flush() and Ok(()).
Finish ==
  /\ pc = "flushing"
  /\ DOMAIN buffer = {}
  /\ pc' = "done"
  /\ UNCHANGED << config, input, grouper, buffer, bufsrc, output, outsrc >>

Next == WriteHeaders \/ ReadRecord \/ EndOfInput \/ FlushGroup \/ Finish

Spec == Init /\ [][Next]_vars

\* The target selections with their indices in any order: the selection is
\* kept in the order the user lists the columns in.
AnyOrderSelections == Selections \cup { << 1, 0 >> }

InitAnyOrder ==
  /\ policy \in Policies
  /\ select \in AnyOrderSelections
  /\ groupby \in GroupBys
  /\ input = << >>
  /\ grouper = << >>
  /\ buffer = << >>
  /\ bufsrc = << >>
  /\ output = << >>
  /\ outsrc = << >>
  /\ pc = "start"
  /\ headers \in FillHeaderRows
  /\ flag_name = {}
  /\ flag_no_headers = FALSE

SpecAnyOrder == InitAnyOrder /\ [][Next]_vars

\* The run with its progress after the input has ended: fill is one
\* sequential thread, so once the read loop is left the loop over the
\* buffers runs to its end and the writer is flushed.  Nothing is assumed
\* of the reader: the input may never end.
SpecLive == Spec /\ WF_vars(FlushGroup) /\ WF_vars(Finish)

\* ------------------------------------------- a run over short records
\* Records with fewer fields than the widest index in use.
ShortRecords == { << "a" >>, << "", "c" >> }

\* The positions of a selection whose index the record has no field for:
\* record[i] panics there.
OutOfRange(selection, record) ==
  { k \in 1..Len(selection) : selection[k] >= Len(record) }

\* The part of a selection that is gone through before record[i] panics.
BeforePanic(selection, record) ==
  LET first == CHOOSE k \in OutOfRange(selection, record) :
                 \A m \in OutOfRange(selection, record) : k <= m
  IN  SubSeq(selection, 1, first - 1)

\* The panic taken for an error that is reported after the record was
\* written as it came.
IndexPanic_WritesRecord(record, g) ==
  /\ pc' = "error"
  /\ grouper' = g
  /\ output' = Append(output, record)
  /\ outsrc' = Append(outsrc, Len(input) + 1)
  /\ UNCHANGED << buffer, bufsrc >>

\* record[i] with i out of range panics: the run ends there, with the memory
\* as the fields memorized before the panic left it.
IndexPanic(record, g) ==
  /\ pc' = "error"
  /\ grouper' = g
  /\ UNCHANGED << buffer, bufsrc, output, outsrc >>

\* One iteration of either loop on a short record.  groupbykey indexes the
\* record by every group-by index; memorize then indexes it by the selected
\* indices one after the other, memorizing each non-empty field before it
\* takes the next; a record that has a field for every index in use is
\* processed like any other.
ReadShortRecord ==
  /\ pc = "reading"
  /\ Len(input) < MaxRows
  /\ \E record \in ShortRecords :
       /\ input' = Append(input, record)
       /\ IF groupby # {} /\ OutOfRange(CHOOSE s \in groupby : TRUE, record) # {}
          THEN IndexPanic(record, grouper)
          ELSE IF OutOfRange(select, record) # {}
          THEN LET groupkey == groupbykey({}, record, groupby)
                   done     == BeforePanic(select, record)
               IN  IndexPanic(record,
                     IF policy = "first"
                     THEN FirstFill_memorize(grouper, done, record, groupkey)
                     ELSE ForwardFill_memorize(grouper, done, record, groupkey))
          ELSE /\ IF policy = "first" THEN FirstFillRecord(record)
                                      ELSE ForwardFillRecord(record)
               /\ pc' = pc
  /\ UNCHANGED config

NextRagged == Next \/ ReadShortRecord

SpecRagged == Init /\ [][NextRagged]_vars

\* ---------------------------------------------------- a run of coalesce

NonEmpty(f) == f # ""

\* The fields of the selected columns, in selection order:
\* $select.iter().map(|&i| &$record[i])
SelectedFields(record, selection) ==
  [k \in 1..Len(selection) |-> Field(record, selection[k])]

\* coalesce! with the filter left out: the first selected field is appended,
\* empty or not.
coalesce_FirstSelected(record, selection) ==
  record \o SubSeq(SelectedFields(record, selection) \o << "" >>, 1, 1)

\* The macro coalesce!: the record's fields, chained with the first item of
\* (the non-empty selected fields, then one empty field).
coalesce(record, selection) ==
  record \o SubSeq(SelectSeq(SelectedFields(record, selection), NonEmpty)
                     \o << "" >>, 1, 1)

InitCoalesce ==
  /\ policy = "coalesce"
  /\ select \in CoalesceSelections
  /\ groupby = {}
  /\ headers \in HeaderRows
  /\ flag_name \in Names
  /\ flag_no_headers \in BOOLEAN
  /\ input = << >>
  /\ grouper = << >>
  /\ buffer = << >>
  /\ bufsrc = << >>
  /\ output = << >>
  /\ outsrc = << >>
  /\ pc = "header"

\* if !rconfig.no_headers { ... }: the header row is written, coalesced or
\* with the name appended.  It is written as row 0 of the input.
CoalesceHeaders ==
  /\ pc = "header"
  /\ IF ~flag_no_headers
     THEN /\ output' = Append(output,
                          IF flag_name = {}
                          THEN coalesce(headers, select)
                          ELSE headers \o << CHOOSE name \in flag_name : TRUE >>)
          /\ outsrc' = Append(outsrc, 0)
     ELSE UNCHANGED << output, outsrc >>
  /\ pc' = "reading"
  /\ UNCHANGED << config, input, grouper, buffer, bufsrc >>

\* One iteration of the loop of coalesce's run.  With --no-headers the first
\* row of the file, which byte_headers() returned, is the first record read.
CoalesceRecord ==
  /\ pc = "reading"
  /\ Len(input) < MaxCoalesceRows
  /\ \E record \in Records :
       /\ (flag_no_headers /\ input = << >>) => record = headers
       /\ input' = Append(input, record)
       /\ output' = Append(output, coalesce(record, select))
       /\ outsrc' = Append(outsrc, Len(input) + 1)
  /\ UNCHANGED << config, grouper, buffer, bufsrc, pc >>

\* The input has ended: wtr.flush() and Ok(()).  With --no-headers the first
\* row of the file has been read as a record by then.
CoalesceFinish ==
  /\ pc = "reading"
  /\ flag_no_headers => input # << >>
  /\ pc' = "done"
  /\ UNCHANGED << config, input, grouper, buffer, bufsrc, output, outsrc >>

NextCoalesce == CoalesceHeaders \/ CoalesceRecord \/ CoalesceFinish

SpecCoalesce == InitCoalesce /\ [][NextCoalesce]_vars

\* ------------------------------------------- vocabulary of the properties
\* What the properties below say is stated on the input read so far, without
\* the operators of the run above.

\* The data rows written so far, and the input record each of them is: the
\* output without the header row, which is written as row 0.
DataFrom == IF outsrc # << >> /\ outsrc[1] = 0 THEN 2 ELSE 1

written == SubSeq(output, DataFrom, Len(output))

writtensrc == SubSeq(outsrc, DataFrom, Len(outsrc))

Targets == { select[k] : k \in 1..Len(select) }

GroupCols ==
  IF groupby = {} THEN {}
  ELSE LET sel == CHOOSE s \in groupby : TRUE IN { sel[k] : k \in 1..Len(sel) }

\* Input records i and k have the same group key.
SameGroup(i, k) ==
  \A c \in GroupCols : Field(input[i], c) = Field(input[k], c)

\* The input records among 1..n of the group of record i whose field in
\* column c is not empty.
Sightings(i, c, n) ==
  { k \in 1..n : SameGroup(k, i) /\ Field(input[k], c) # "" }

Highest(S) == CHOOSE k \in S : \A m \in S : m <= k

Lowest(S) == CHOOSE k \in S : \A m \in S : k <= m

\* The most recent non-empty value of column c in the group of record i, at
\* or before record i ("" when there is none).
MostRecent(i, c) ==
  LET S == Sightings(i, c, i)
  IN  IF S = {} THEN "" ELSE Field(input[Highest(S)], c)

\* The first non-empty value of column c in the group of record i among the
\* records 1..n ("" when there is none).
FirstSeen(i, c, n) ==
  LET S == Sightings(i, c, n)
  IN  IF S = {} THEN "" ELSE Field(input[Lowest(S)], c)

\* How often input record i was written, and how often it is held in a buffer.
TimesWritten(i) == Cardinality({ j \in 1..Len(writtensrc) : writtensrc[j] = i })

TimesBuffered(i) ==
  Cardinality({ kp \in UNION { {k} \X (1..Len(bufsrc[k])) : k \in DOMAIN bufsrc } :
                  bufsrc[kp[1]][kp[2]] = i })

\* After memorizing and filling record i, a target column of it is still
\* empty: no record of its group up to it has a value in that column.
Unresolved(i) == \E c \in Targets : Sightings(i, c, i) = {}

\* The group key of a record: its fields at the group-by columns, in
\* selection order (the empty key without group-by).
KeyOf(record) ==
  IF groupby = {} THEN << >>
  ELSE LET sel == CHOOSE s \in groupby : TRUE
       IN  [k \in 1..Len(sel) |-> record[sel[k] + 1]]

\* In the input inp, every target column has a non-empty field in record i
\* or in an earlier record of its group: filled, record i has no empty
\* target field.
ResolvedIn(inp, i) ==
  \A c \in Targets : \E k \in 1..i :
    KeyOf(inp[k]) = KeyOf(inp[i]) /\ inp[k][c + 1] # ""

\* The value a memory g holds for (key, column c), "" when it holds none.
Remembered(g, key, c) ==
  IF key \in DOMAIN g /\ c \in DOMAIN g[key] THEN g[key][c] ELSE ""

\* The rows a buffer map holds under a key.
Held(buf, key) == IF key \in DOMAIN buf THEN buf[key] ELSE << >>

\* A row filled from memory g: every empty target field replaced by the
\* value remembered for the key and column, everything else as it is.
Filled(row, g, key) ==
  [k \in 1..Len(row) |->
     IF (k - 1) \in Targets /\ row[k] = "" THEN Remembered(g, key, k - 1)
     ELSE row[k]]

\* ----------------------------------------------------------------- C1
\* C1: under the forward policy, with or without group-by, the field written
\* for input record i at a target column c is the most recent non-empty
\* input value of column c among the records of i's group at or before i
\* (its own non-empty field counts), and is empty when there is none.  As
\* this holds of every written row in every state, a leading empty field is
\* not filled later.
C1_ForwardFill ==
  policy = "forward" =>
    \A j \in 1..Len(written) : \A c \in Targets :
      Field(written[j], c) = MostRecent(writtensrc[j], c)

\* A grouped forward run wrote a row whose empty field was filled from its
\* own group although the record read just before it, of another group,
\* carries another value in that column; and a leading empty field was
\* written empty.
C1_Witness ==
  /\ policy = "forward"
  /\ groupby # {}
  /\ \E j \in 2..Len(written) : \E c \in Targets :
       /\ Field(input[writtensrc[j]], c) = ""
       /\ Field(written[j], c) # ""
       /\ ~SameGroup(writtensrc[j] - 1, writtensrc[j])
       /\ Field(input[writtensrc[j] - 1], c) \notin {"", Field(written[j], c)}
  /\ \E j \in 1..Len(written) : \E c \in Targets : Field(written[j], c) = ""

\* ----------------------------------------------------------------- C2
\* C2: under the first policy, when the run is done, every input record was
\* written, and the row written for it has, at each target column c, the
\* record's own field when that is not empty (even when it differs from the
\* group's first value), and otherwise the first non-empty input value of
\* column c among ALL records of the group, later ones included ("" when
\* the group never has one).
C2_FirstFill ==
  (pc = "done" /\ policy = "first") =>
    \A i \in 1..Len(input) :
      /\ \E j \in 1..Len(written) : writtensrc[j] = i
      /\ \A j \in 1..Len(written) : writtensrc[j] = i =>
           \A c \in Targets :
             Field(written[j], c) =
               IF Field(input[i], c) # "" THEN Field(input[i], c)
               ELSE FirstSeen(i, c, Len(input))

\* A finished first-policy run in which a record's empty field was filled
\* with a value that a LATER record of its group brought, and a record kept
\* its own value although the group's first value is another one.
C2_Witness ==
  /\ pc = "done"
  /\ policy = "first"
  /\ \E j \in 1..Len(written) : \E c \in Targets :
       /\ Field(input[writtensrc[j]], c) = ""
       /\ Field(written[j], c) # ""
       /\ Sightings(writtensrc[j], c, writtensrc[j]) = {}
  /\ \E j \in 1..Len(written) : \E c \in Targets :
       /\ Field(input[writtensrc[j]], c) # ""
       /\ Field(written[j], c) # FirstSeen(writtensrc[j], c, Len(input))

\* ----------------------------------------------------------------- C3
\* C3, as the specification states it: under the first policy, once a record
\* of a group has a non-empty input value in a target column, EVERY row of
\* the group is written with that first-seen value in the column.
C3_EveryRowFirstSeen ==
  policy = "first" =>
    \A j \in 1..Len(written) : \A c \in Targets :
      FirstSeen(writtensrc[j], c, Len(input)) # "" =>
        Field(written[j], c) = FirstSeen(writtensrc[j], c, Len(input))

\* C3, amended: under the first policy, once a record of a group has a
\* non-empty input value in a target column, the value remembered for the
\* group and column is that first-seen value and no later non-empty value
\* overrides it; every written row of the group whose own input field in
\* the column is empty carries the first-seen value, and a row whose own
\* input field is not empty carries its own value.
C3_FirstSeenUnlessOwn ==
  policy = "first" =>
    \A i \in 1..Len(input) : \A c \in Targets :
      LET v   == FirstSeen(i, c, Len(input))
          key == groupbykey({}, input[i], groupby)
      IN  v # "" =>
            /\ key \in DOMAIN grouper
            /\ c \in DOMAIN grouper[key]
            /\ grouper[key][c] = v
            /\ \A j \in 1..Len(written) : writtensrc[j] = i =>
                 Field(written[j], c) =
                   IF Field(input[i], c) = "" THEN v ELSE Field(input[i], c)

\* A first-policy run wrote a row that keeps its own value, which is not the
\* first-seen one of its group, and a row of the same group that was filled
\* with the first-seen value.
C3_Witness ==
  /\ policy = "first"
  /\ \E j1, j2 \in 1..Len(written) : \E c \in Targets :
       /\ SameGroup(writtensrc[j1], writtensrc[j2])
       /\ Field(input[writtensrc[j1]], c) # ""
       /\ Field(written[j1], c) # FirstSeen(writtensrc[j1], c, Len(input))
       /\ Field(input[writtensrc[j2]], c) = ""
       /\ Field(written[j2], c) = FirstSeen(writtensrc[j2], c, Len(input))
       /\ Field(written[j2], c) # ""

\* ----------------------------------------------------------------- C4
\* C4: under both policies, with or without group-by, every record read is
\* at any time either written once or held once in a buffer, never both and
\* never twice; when the run is done no row is buffered, so every input
\* record was written exactly once and as many rows were written as read.
C4_ExactlyOnce ==
  /\ \A i \in 1..Len(input) : TimesWritten(i) + TimesBuffered(i) = 1
  /\ Len(writtensrc) = Len(written)
  /\ DOMAIN bufsrc = DOMAIN buffer
  /\ \A k \in DOMAIN buffer : Len(bufsrc[k]) = Len(buffer[k])
  /\ pc = "done" =>
       /\ \A k \in DOMAIN buffer : buffer[k] = << >>
       /\ \A i \in 1..Len(input) : TimesWritten(i) = 1
       /\ Len(written) = Len(input)

\* A finished grouped first-policy run of MaxRows records in which a row
\* left its buffer when its group resolved and another one was held until
\* the end of the input.
C4_Witness ==
  /\ pc = "done"
  /\ policy = "first"
  /\ groupby # {}
  /\ Len(input) = MaxRows
  /\ \E i \in 1..Len(input) :
       /\ Unresolved(i)
       /\ \E r \in (i + 1)..Len(input) : SameGroup(r, i) /\ ~Unresolved(r)
  /\ \E i \in 1..Len(input) :
       /\ Unresolved(i)
       /\ \A r \in 1..Len(input) : SameGroup(r, i) => Unresolved(r)

\* ----------------------------------------------------------------- C5
\* C5: under both policies, a written row has as many fields as the input
\* record it was produced from, its field at every column outside the
\* target selection is the input field, and so is its field at every target
\* column whose input field is not empty; the same holds of the rows held
\* in a buffer, and so of rows that are filled again when drained.
Passthrough(record, row) ==
  /\ Len(row) = Len(record)
  /\ \A c \in 0..(Len(record) - 1) :
       (c \notin Targets \/ Field(record, c) # "") =>
         Field(row, c) = Field(record, c)

C5_Passthrough ==
  /\ \A j \in 1..Len(written) : Passthrough(input[writtensrc[j]], written[j])
  /\ \A k \in DOMAIN buffer : \A p \in 1..Len(buffer[k]) :
       Passthrough(input[bufsrc[k][p]], buffer[k][p])

\* A first-policy run wrote a row that had been buffered and was filled
\* again on the drain (a later record brought the value), and wrote a row
\* that keeps its own value where the memory holds another one.
C5_Witness ==
  /\ policy = "first"
  /\ \E j \in 1..Len(written) : \E c \in Targets :
       /\ Unresolved(writtensrc[j])
       /\ Sightings(writtensrc[j], c, writtensrc[j]) = {}
       /\ Field(written[j], c) # ""
  /\ \E j \in 1..Len(written) : \E c \in Targets :
       /\ Field(input[writtensrc[j]], c) # ""
       /\ FirstSeen(writtensrc[j], c, Len(input)) # Field(input[writtensrc[j]], c)

\* ----------------------------------------------------------------- C6
\* C6: under both policies, of two input records of the same group the
\* earlier one is written before the later one: when a record is written,
\* every earlier record of its group was written before it (so none of them
\* is still buffered); the rows of a buffer are in the order they were read;
\* and without group-by the whole output is in input order.
C6_GroupOrder ==
  /\ \A j2 \in 1..Len(writtensrc) : \A r1 \in 1..(writtensrc[j2] - 1) :
       SameGroup(r1, writtensrc[j2]) => \E j1 \in 1..(j2 - 1) : writtensrc[j1] = r1
  /\ \A k \in DOMAIN bufsrc : \A p, q \in 1..Len(bufsrc[k]) :
       p < q => bufsrc[k][p] < bufsrc[k][q]
  /\ groupby = {} =>
       \A j1, j2 \in 1..Len(writtensrc) : j1 < j2 => writtensrc[j1] < writtensrc[j2]

\* A grouped first-policy run in which two rows of a group were buffered and
\* then drained, in their order, by a third record of the group.
C6_Witness ==
  /\ policy = "first"
  /\ groupby # {}
  /\ pc = "reading"
  /\ \E j \in 1..(Len(writtensrc) - 2) :
       /\ writtensrc[j] < writtensrc[j + 1]
       /\ writtensrc[j + 1] < writtensrc[j + 2]
       /\ SameGroup(writtensrc[j], writtensrc[j + 2])
       /\ SameGroup(writtensrc[j + 1], writtensrc[j + 2])
       /\ Unresolved(writtensrc[j])
       /\ Unresolved(writtensrc[j + 1])
       /\ ~Unresolved(writtensrc[j + 2])

\* ----------------------------------------------------------------- C7
\* C7: the output order can differ from the input order, and it does so only
\* under the first policy with group-by and only across groups: whenever a
\* row is written while an earlier-read record is still buffered, or a row
\* stands in the output before a row of an earlier-read record, the two
\* records are of different groups, the policy is first and there is a
\* group-by selection; a row written while the input is still being read
\* has no empty target field (its group has resolved).
C7_ReorderAcrossGroups ==
  /\ \A j \in 1..Len(writtensrc) : \A k \in DOMAIN bufsrc : \A p \in 1..Len(bufsrc[k]) :
       bufsrc[k][p] < writtensrc[j] =>
         /\ policy = "first"
         /\ groupby # {}
         /\ ~SameGroup(bufsrc[k][p], writtensrc[j])
         /\ pc = "reading" => ~AnyEmpty(written[j], select)
  /\ \A j1, j2 \in 1..Len(writtensrc) :
       (j1 < j2 /\ writtensrc[j1] > writtensrc[j2]) =>
         /\ policy = "first"
         /\ groupby # {}
         /\ ~SameGroup(writtensrc[j1], writtensrc[j2])

\* A row of one group was written while an earlier-read record of another
\* group was still buffered, and the finished run's output is not in input
\* order.
C7_Witness ==
  /\ pc = "done"
  /\ \E j1, j2 \in 1..Len(writtensrc) :
       /\ j1 < j2
       /\ writtensrc[j1] > writtensrc[j2]
       /\ ~Unresolved(writtensrc[j1])
       /\ Unresolved(writtensrc[j2])

\* ----------------------------------------------------------------- C8
\* C8: coalesce writes, for every data record and every selection, the
\* record's fields unchanged and in order followed by exactly one more
\* field: the first non-empty field among the selected columns taken in
\* selection order, or the empty field when all selected fields are empty.
\* The header row, when there is one, is written first and in the same way,
\* unless --name is given: then the field appended to it is that name.
\* Rows are written in input order, one per record.
FirstNonEmptySelected(record) ==
  LET S == { k \in 1..Len(select) : Field(record, select[k]) # "" }
  IN  IF S = {} THEN "" ELSE Field(record, select[Lowest(S)])

C8_Coalesce ==
  policy = "coalesce" =>
    /\ pc # "header" =>
         /\ Len(output) = Len(input) + (IF flag_no_headers THEN 0 ELSE 1)
         /\ \A j \in 1..Len(output) :
              outsrc[j] = j - (IF flag_no_headers THEN 0 ELSE 1)
    /\ \A j \in 1..Len(output) :
         LET record == IF outsrc[j] = 0 THEN headers ELSE input[outsrc[j]]
             row    == output[j]
         IN  /\ Len(row) = Len(record) + 1
             /\ SubSeq(row, 1, Len(record)) = record
             /\ row[Len(row)] =
                  IF outsrc[j] = 0 /\ flag_name # {}
                  THEN CHOOSE name \in flag_name : TRUE
                  ELSE FirstNonEmptySelected(record)

\* A finished coalesce run with a header row and --name, whose selection is
\* not in column order, in which the field appended to a data row is the
\* second selected one (the first selected one is empty) and the field
\* appended to another data row is empty.
C8_Witness ==
  /\ policy = "coalesce"
  /\ pc = "done"
  /\ ~flag_no_headers
  /\ flag_name # {}
  /\ Len(select) = 2
  /\ select[1] > select[2]
  /\ output[1] = headers \o << "n" >>
  /\ \E j \in 2..Len(output) :
       /\ Field(input[outsrc[j]], select[1]) = ""
       /\ output[j][Len(output[j])] = Field(input[outsrc[j]], select[2])
       /\ output[j][Len(output[j])] # ""
  /\ \E j \in 2..Len(output) : output[j][Len(output[j])] = ""

\* ----------------------------------------------------------------- C9
\* C9: under the forward policy nothing is held back: after k records have
\* been read exactly k rows have been written, the j-th written row is the
\* row of the j-th input record (the record with its empty target fields
\* filled and nothing else changed), and no buffer holds a row.
C9_ForwardImmediate ==
  policy = "forward" =>
    /\ Len(written) = Len(input)
    /\ buffer = << >>
    /\ \A j \in 1..Len(written) :
         /\ writtensrc[j] = j
         /\ Passthrough(input[j], written[j])
         /\ \A c \in Targets : Field(written[j], c) = "" => Unresolved(j)

\* A forward run that has read and written MaxRows records, still reading,
\* among them a row written with a field filled and a row written with an
\* empty target field.
C9_Witness ==
  /\ policy = "forward"
  /\ pc = "reading"
  /\ Len(input) = MaxRows
  /\ Len(written) = MaxRows
  /\ \E j \in 1..Len(written) : \E c \in Targets :
       Field(input[j], c) = "" /\ Field(written[j], c) # ""
  /\ \E j \in 1..Len(written) : AnyEmpty(written[j], select)

\* ---------------------------------------------------------------- C10
\* C10: under the first policy a record is pushed on its group's buffer if
\* and only if, once memorized and filled, a target column of it is still
\* empty: the record just read is in its group's buffer exactly in that
\* case, a buffered row is such a record, and a record with no empty target
\* column left is written at once.  A buffered row is written at most once
\* (exactly once when the run is done), and not before a later record of
\* its group with no empty target column left has been read, unless the
\* input has ended.
C10_BufferedIffUnresolved ==
  policy = "first" =>
    \A i \in 1..Len(input) :
      /\ (pc = "reading" /\ i = Len(input)) =>
           (TimesBuffered(i) = 1 <=> Unresolved(i))
      /\ TimesBuffered(i) > 0 => Unresolved(i)
      /\ ~Unresolved(i) => TimesWritten(i) = 1
      /\ Unresolved(i) =>
           /\ TimesWritten(i) <= 1
           /\ pc = "done" => TimesWritten(i) = 1
           /\ TimesWritten(i) = 1 =>
                \/ pc \in {"flushing", "done"}
                \/ \E r \in (i + 1)..Len(input) :
                     SameGroup(r, i) /\ ~Unresolved(r)

\* A first-policy run with two target columns, still reading, in which a
\* record with a value in one target column and none in the other is
\* buffered, and a record that had been buffered has been written, a later
\* record having resolved its group.
C10_Witness ==
  /\ policy = "first"
  /\ pc = "reading"
  /\ Len(select) = 2
  /\ \E i \in 1..Len(input) :
       /\ TimesBuffered(i) = 1
       /\ \E c \in Targets : Field(input[i], c) # ""
  /\ \E i \in 1..Len(input) :
       /\ Unresolved(i)
       /\ TimesWritten(i) = 1

\* ---------------------------------------------------------------- C11
\* C11: under the first policy, when the record read has no empty target
\* column after filling, the step writes all rows of its group's buffer, in
\* the order they were buffered, each filled again from the group's memory
\* as it is after the record was memorized, and then the row of the record
\* itself; afterwards the group has no buffer, and the buffers of the other
\* groups are as they were.
C11_Drain ==
  LET n    == Len(input) + 1
      key  == KeyOf(input'[n])
      rows == Held(buffer, key)
      srcs == Held(bufsrc, key)
  IN  ResolvedIn(input', n) =>
        /\ Len(written') = Len(written) + Len(rows) + 1
        /\ SubSeq(written', 1, Len(written)) = written
        /\ \A p \in 1..Len(rows) :
             /\ written'[Len(written) + p] = Filled(rows[p], grouper', key)
             /\ writtensrc'[Len(written) + p] = srcs[p]
        /\ written'[Len(written')] = Filled(input'[n], grouper', key)
        /\ writtensrc'[Len(written')] = n
        /\ key \notin DOMAIN buffer'
        /\ DOMAIN buffer' = DOMAIN buffer \ {key}
        /\ \A k \in DOMAIN buffer' : buffer'[k] = buffer[k]

C11_DrainOnResolution ==
  [][(policy = "first" /\ input' # input) => C11_Drain]_vars

\* A grouped first-policy run, still reading, whose last record resolved its
\* group: two earlier records of the group were written before it, in their
\* order, one of them with a field whose value only the resolving record
\* brought.
C11_Witness ==
  /\ policy = "first"
  /\ groupby # {}
  /\ pc = "reading"
  /\ Len(input) = MaxRows
  /\ Len(written) >= 3
  /\ LET n == Len(input)
         m == Len(written)
     IN  /\ writtensrc[m] = n
         /\ writtensrc[m - 2] < writtensrc[m - 1]
         /\ Unresolved(writtensrc[m - 2])
         /\ Unresolved(writtensrc[m - 1])
         /\ SameGroup(writtensrc[m - 2], n)
         /\ SameGroup(writtensrc[m - 1], n)
         /\ \E c \in Targets :
              /\ Sightings(n, c, n - 1) = {}
              /\ Field(written[m - 1], c) = Field(input[n], c)
              /\ Field(written[m - 1], c) # ""

\* ---------------------------------------------------------------- C12
\* C12: under the first policy, once the input has ended the run reaches its
\* end, and then no row is buffered any more, every input record has been
\* written exactly once, and every written row is its record filled from
\* its group's final memory: a target field that the memory cannot fill is
\* written empty, the row is not dropped.
C12_AllFlushed ==
  /\ pc = "done"
  /\ DOMAIN buffer = {}
  /\ \A i \in 1..Len(input) : TimesWritten(i) = 1
  /\ \A j \in 1..Len(written) :
       written[j] = Filled(input[writtensrc[j]], grouper, KeyOf(input[writtensrc[j]]))

C12_FlushAtEnd ==
  (policy = "first" /\ pc = "flushing") ~> C12_AllFlushed

\* A finished first-policy run in which a record that never resolved was
\* written by the flush with one target field filled from a later record of
\* its group and another target field empty.
C12_Witness ==
  /\ policy = "first"
  /\ pc = "done"
  /\ \E j \in 1..Len(written) : \E c, d \in Targets :
       /\ Sightings(writtensrc[j], c, writtensrc[j]) = {}
       /\ Field(written[j], c) # ""
       /\ Field(written[j], d) = ""
       /\ \A r \in 1..Len(input) :
            SameGroup(r, writtensrc[j]) => Unresolved(r)

\* ---------------------------------------------------------------- C13
\* C13: under both policies and in every reachable state, the value
\* remembered for a group key and a target column is a non-empty value found
\* in that column of an already-read record with that group key; and a
\* written field that differs from its input field replaces an empty field
\* of a target column by a value found in that same column of a read record
\* of the same group.
C13_GroupIsolation ==
  /\ \A key \in DOMAIN grouper : \A c \in DOMAIN grouper[key] :
       /\ c \in Targets
       /\ grouper[key][c] # ""
       /\ \E i \in 1..Len(input) :
            /\ KeyOf(input[i]) = key
            /\ Field(input[i], c) = grouper[key][c]
  /\ \A j \in 1..Len(written) : \A c \in 0..(Len(written[j]) - 1) :
       Field(written[j], c) # Field(input[writtensrc[j]], c) =>
         /\ c \in Targets
         /\ Field(input[writtensrc[j]], c) = ""
         /\ \E i \in 1..Len(input) :
              /\ SameGroup(i, writtensrc[j])
              /\ Field(input[i], c) = Field(written[j], c)

\* A grouped run in which a record with an empty target field was written
\* with its own group's value although the record read last before it
\* belongs to another group and carries another value in that column, which
\* that group's memory holds.
C13_Witness ==
  /\ groupby # {}
  /\ \E j \in 1..Len(written) : \E c \in Targets :
       LET i == writtensrc[j]
       IN  /\ i > 1
           /\ Field(input[i], c) = ""
           /\ Field(written[j], c) # ""
           /\ ~SameGroup(i - 1, i)
           /\ Field(input[i - 1], c) \notin { "", Field(written[j], c) }
           /\ Remembered(grouper, KeyOf(input[i - 1]), c) = Field(input[i - 1], c)
           /\ Remembered(grouper, KeyOf(input[i]), c) = Field(written[j], c)

\* ---------------------------------------------------------------- C14
\* C14: under the first policy no step changes or removes a value the memory
\* holds for a group and a column, whatever the records read later carry;
\* under the forward policy, right after a record with a non-empty field in
\* a target column is processed, the value remembered for its group and that
\* column is that field.
C14_Step ==
  /\ policy = "first" =>
       \A key \in DOMAIN grouper : \A c \in DOMAIN grouper[key] :
         /\ key \in DOMAIN grouper'
         /\ c \in DOMAIN grouper'[key]
         /\ grouper'[key][c] = grouper[key][c]
  /\ (policy = "forward" /\ input' # input) =>
       LET record == input'[Len(input) + 1]
       IN  \A c \in Targets :
             Field(record, c) # "" =>
               Remembered(grouper', KeyOf(record), c) = Field(record, c)

C14_WriteOnce == [][C14_Step]_vars

\* A first-policy run in which a record carrying another non-empty value in
\* a target column was read after its group's memory got its value for that
\* column, and the memory still holds the earlier value.
C14_Witness ==
  /\ policy = "first"
  /\ \E i, k \in 1..Len(input) : \E c \in Targets :
       /\ i < k
       /\ SameGroup(i, k)
       /\ Sightings(i, c, i) = {i}
       /\ Field(input[k], c) \notin { "", Field(input[i], c) }
       /\ Remembered(grouper, KeyOf(input[k]), c) = Field(input[i], c)

\* ---------------------------------------------------------------- C15
\* C15: when the record read has fewer fields than a target index or a
\* group-by index requires, the run aborts in that step: nothing is written
\* for the record, the rows written before stay as they are, and the rows
\* held in buffers stay unwritten; after the abort no step follows, so no
\* later record is read or written and no buffer is flushed.  A record that
\* has a field for every index in use does not abort the run.
C15_Step ==
  /\ input' # input =>
       LET record == input'[Len(input) + 1]
           short  == \E c \in Targets \cup GroupCols : c >= Len(record)
       IN  /\ short <=> pc' = "error"
           /\ short => /\ written' = written
                       /\ writtensrc' = writtensrc
                       /\ buffer' = buffer
                       /\ bufsrc' = bufsrc
  /\ pc = "error" => UNCHANGED vars
  /\ pc' = "error" => input' # input \/ pc = "error"

C15_AbortOnShortRecord == [][C15_Step]_vars

\* A first-policy run aborted at its third record: one row was written
\* before, and another group's row is still held in its buffer, unwritten.
C15_Witness ==
  /\ policy = "first"
  /\ pc = "error"
  /\ Len(input) = 3
  /\ writtensrc = << 1 >>
  /\ \E key \in DOMAIN bufsrc : bufsrc[key] = << 2 >>
  /\ \E c \in Targets \cup GroupCols : c >= Len(input[3])

\* ---------------------------------------------------------------- C16
\* C16, as the specification states it: under every policy a step that
\* consumes an input record writes no record or one record, and when the
\* run ends no record is left in a buffer and every record was written once.
C16_ZeroOrOneStep ==
  /\ input' # input => Len(written') \in { Len(written), Len(written) + 1 }
  /\ (pc = "flushing" /\ pc' = "done") =>
       /\ DOMAIN buffer = {}
       /\ \A i \in 1..Len(input) : TimesWritten(i) = 1

C16_ZeroOrOne == [][C16_ZeroOrOneStep]_vars

\* C16, amended: under the forward policy a step that consumes an input
\* record writes exactly one record; under the first policy it writes none
\* when the record is left with an empty target field, and otherwise the
\* rows held in its group's buffer and the record's row, one more than the
\* buffer held; when the run ends no record is left in a buffer and every
\* record was written once.
C16_EmissionStep ==
  LET n   == Len(input) + 1
      key == KeyOf(input'[n])
  IN  /\ (input' # input /\ policy = "forward") =>
           Len(written') = Len(written) + 1
      /\ (input' # input /\ policy = "first") =>
           Len(written') = IF ResolvedIn(input', n)
                          THEN Len(written) + Len(Held(buffer, key)) + 1
                          ELSE Len(written)
      /\ (pc = "flushing" /\ pc' = "done") =>
           /\ DOMAIN buffer = {}
           /\ \A i \in 1..Len(input) : TimesWritten(i) = 1

C16_Emission == [][C16_EmissionStep]_vars

\* A first-policy run still reading, in which the first two records were
\* left with an empty target field and the third resolved their group: the
\* step that consumed the third record wrote all three rows.
C16_Witness ==
  /\ policy = "first"
  /\ pc = "reading"
  /\ Len(input) = 3
  /\ Unresolved(1)
  /\ Unresolved(2)
  /\ ~Unresolved(3)
  /\ SameGroup(1, 3)
  /\ SameGroup(2, 3)
  /\ writtensrc = << 1, 2, 3 >>

\* ---------------------------------------------------------------- C17
\* C17: under the first policy, as long as the input has not ended every row
\* written (a resolving record's row, or a buffered row drained by it) has a
\* non-empty field in every target column; a row with an empty target field
\* is in the output only once the end-of-stream flush has begun.
C17_WrittenRowsResolved ==
  (policy = "first" /\ pc = "reading") =>
    \A j \in 1..Len(written) : \A c \in Targets : Field(written[j], c) # ""

\* A first-policy run still reading whose output holds a drained row (its
\* record was left with an empty target field and buffered) next to the row
\* of the record that resolved it, both selected columns being targets.
C17_Witness ==
  /\ policy = "first"
  /\ pc = "reading"
  /\ Len(select) = 2
  /\ \E j \in 1..Len(written) :
       /\ Unresolved(writtensrc[j])
       /\ j < Len(written)
       /\ ~Unresolved(writtensrc[Len(written)])
       /\ SameGroup(writtensrc[j], writtensrc[Len(written)])

\* ---------------------------------------------------------------- C18
\* C18: under the first policy, between two input records a group whose
\* buffer holds a row has no remembered value for at least one target
\* column; and a record read after a record of its group that left no
\* target column unresolved is never held in a buffer: it is written once,
\* before every record read after it.
C18_BufferedOnlyWhileUnresolved ==
  policy = "first" =>
    /\ pc = "reading" =>
         \A key \in DOMAIN buffer :
           buffer[key] # << >> =>
             \E c \in Targets : Remembered(grouper, key, c) = ""
    /\ \A i, k \in 1..Len(input) :
         (i < k /\ SameGroup(i, k) /\ ~Unresolved(i)) =>
           /\ TimesBuffered(k) = 0
           /\ TimesWritten(k) = 1
           /\ \A j, m \in 1..Len(writtensrc) :
                (writtensrc[j] = k /\ writtensrc[m] > k) => j < m

\* A first-policy grouped run still reading: the first record resolved its
\* group, the second, of another group, is held in that group's buffer, and
\* the third, of the first group and with an empty target field of its own,
\* was written at once.
C18_Witness ==
  /\ policy = "first"
  /\ pc = "reading"
  /\ Len(input) = 3
  /\ ~Unresolved(1)
  /\ ~SameGroup(1, 2)
  /\ SameGroup(1, 3)
  /\ \E c \in Targets : Field(input[3], c) = ""
  /\ writtensrc = << 1, 3 >>
  /\ \E key \in DOMAIN bufsrc : bufsrc[key] = << 2 >>

\* ---------------------------------------------------------------- C19
\* The columns of a record of full width that the selection-aware mapping
\* replaces when every field is empty and the memory holds value v for
\* every column.
EligibleColumns ==
  LET v   == "a"
      all == (<< >> :> [c \in 0..(NumCols - 1) |-> v])
      row == Fill([k \in 1..NumCols |-> ""], select, all, << >>)
  IN  { c \in 0..(NumCols - 1) : Field(row, c) = v }

\* C19: for every target selection, whatever the order of its indices, the
\* columns the selection-aware mapping fills are the selected columns that
\* memorize records; so every row written in a step has a non-empty field
\* in each target column for which its group's memory holds a value at that
\* step, and under the first policy every row held in a buffer has an empty
\* target field whose column the memory of its group holds no value for.
C19_Step ==
  /\ EligibleColumns = Targets
  /\ \A j \in (Len(written) + 1)..Len(written') : \A c \in Targets :
       Remembered(grouper', KeyOf(input'[writtensrc'[j]]), c) # "" =>
         Field(written'[j], c) # ""
  /\ \A key \in DOMAIN buffer' : \A p \in 1..Len(buffer'[key]) :
       \E c \in Targets :
         /\ Field(buffer'[key][p], c) = ""
         /\ Remembered(grouper', key, c) = ""

C19_SameColumns == [][C19_Step]_vars

====
